---- MODULE Spec2Model ----
(***************************************************************************)
(* Model of the prime-counting benchmark: the range list built in main,    *)
(* count_primes_in_range / is_prime, run_sequential, run_multiprocessing   *)
(* (multiprocessing.Pool + starmap) and main's timing and speedup report.  *)
(*                                                                         *)
(* A Python name that may be unbound is modelled as a set: {} is unbound,  *)
(* {v} is bound to v.  A work item is a tuple; count_primes_in_range is    *)
(* called with the tuple unpacked, so a tuple whose length is not 2 makes  *)
(* the call raise.                                                         *)
(***************************************************************************)
EXTENDS Integers, Sequences, FiniteSets, TLC

\* ------------------------------------------------------------- bounds
MaxBase == 1
MaxUnit == 2
MaxCount == 3
MaxItems == 5
MaxProcs == 2
MaxClock == 1
MaxN == 12

\* -------------------------------------------------- program constants
RangeBase == 1000000
RangeSize == 10000
RangeCount == 20

Unbound == {}
Bound(v) == {v}
ValueOf(s) == CHOOSE v \in s : TRUE

Min(S) == CHOOSE x \in S : \A y \in S : x <= y

\* ------------------------------------------------------ pure functions

\* int(n**0.5): the float square root truncated; exact for n < 2^52
IntSqrt(n) == CHOOSE r \in 0..n : r * r <= n /\ (r + 1) * (r + 1) > n

is_prime_NoPlusOne(n) ==
    IF n < 2 THEN FALSE
    ELSE LET limit == IntSqrt(n)
         IN  \A i \in 2..(limit - 1) : n % i # 0

is_prime(n) ==
    IF n < 2 THEN FALSE
    ELSE LET limit == IntSqrt(n) + 1
         IN  \A i \in 2..(limit - 1) : n % i # 0

RECURSIVE CountFrom(_, _, _)
CountFrom(num, end, cnt) ==
    IF num >= end THEN cnt
    ELSE CountFrom(num + 1, end, IF is_prime(num) THEN cnt + 1 ELSE cnt)

count_primes_in_range(start, end) == CountFrom(start, end, 0)

\* the list comprehension of main, with its three literals as parameters
partition_InclusiveEnd(b, u, c) ==
    [i \in 1..c |-> <<b + (i - 1) * u, b + i * u - 1>>]

partition(b, u, c) ==
    [i \in 1..c |-> <<b + (i - 1) * u, b + i * u>>]

\* the call f(*item) raises unless the item unpacks into (start, end)
Raises(item) == Len(item) # 2

F(item) == count_primes_in_range(item[1], item[2])

\* ------------------------------------------- multiprocessing.Pool parts

\* Pool._map_async: chunksize, extra = divmod(len(iterable), len(pool) * 4)
ChunkSize(n, p) ==
    IF n = 0 THEN 0
    ELSE LET q == n \div (p * 4)
             extra == n % (p * 4)
         IN  IF extra # 0 THEN q + 1 ELSE q

\* MapResult.__init__: the number of chunks still to be delivered
NumberLeft(n, cs) ==
    IF cs <= 0 THEN 0
    ELSE (n \div cs) + (IF n % cs # 0 THEN 1 ELSE 0)

\* Pool._get_tasks: the input positions of chunk c (1-based)
ChunkPositions(c, cs, n) ==
    {p \in 1..n : (c - 1) * cs < p /\ p <= c * cs}

\* MapResult.__init__: ready at once when there is nothing to wait for
NewJob_NeverReadyWhenEmpty(n, cs) ==
    [value |-> <<>>, success |-> TRUE, exc |-> "none",
     number_left |-> NumberLeft(n, cs), ready |-> FALSE]

NewJob(n, cs) ==
    [value |-> <<>>, success |-> TRUE, exc |-> "none",
     number_left |-> NumberLeft(n, cs), ready |-> (cs <= 0)]

\* mapstar on one chunk: list(itertools.starmap(f, chunk)); stops at the
\* first item on which f raises.  done = the positions f was applied to.
RunChunk(items, ps) ==
    LET bad == {p \in ps : Raises(items[p])}
    IN  IF bad = {}
        THEN [ok |-> TRUE, exc |-> "none", pos |-> ps, done |-> ps,
              vals |-> [p \in ps |-> F(items[p])]]
        ELSE [ok |-> FALSE, exc |-> "TypeError", pos |-> ps,
              done |-> {p \in ps : p <= Min(bad)}, vals |-> <<>>]

\* MapResult._set(i, (success, result))
JobSet_CompletionOrder(job, res) ==
    LET left == job.number_left - 1
        filled == Cardinality(DOMAIN job.value)
        first == Min(res.pos)
    IN  IF res.ok /\ job.success
        THEN [job EXCEPT !.value = [p \in (filled + 1)..(filled + Cardinality(res.pos))
                                       |-> res.vals[first + (p - filled - 1)]] @@ @,
                         !.number_left = left,
                         !.ready = @ \/ left = 0]
        ELSE [job EXCEPT !.value = <<>>,
                         !.exc = IF job.success THEN res.exc ELSE @,
                         !.success = FALSE,
                         !.number_left = left,
                         !.ready = @ \/ left = 0]

JobSet_SubstituteOnFailure(job, res) ==
    LET left == job.number_left - 1
    IN  [job EXCEPT !.value = (IF res.ok THEN res.vals ELSE [p \in res.pos |-> 0]) @@ @,
                    !.number_left = left,
                    !.ready = @ \/ left = 0]

JobSet(job, res) ==
    LET left == job.number_left - 1
    IN  IF res.ok /\ job.success
        THEN [job EXCEPT !.value = res.vals @@ @,
                         !.number_left = left,
                         !.ready = @ \/ left = 0]
        ELSE [job EXCEPT !.value = <<>>,
                         !.exc = IF job.success THEN res.exc ELSE @,
                         !.success = FALSE,
                         !.number_left = left,
                         !.ready = @ \/ left = 0]

\* main: if multiprocessing_time > 0
SpeedupGuard_Ge(mt) == mt >= 0

SpeedupGuard(mt) == mt > 0

\* ---------------------------------------------------------------- state
VARIABLES
    entry,          \* which function the caller entered
    base, unitSize, count,   \* the parameters of main's range list
    processes,      \* mp.cpu_count()
    ranges,         \* the list of work items
    pc,             \* the caller's position
    k, results,     \* run_sequential: items consumed, the local list
    applied,        \* run_sequential: positions f was called on, in order
    pool, taskq, job,        \* run_multiprocessing: workers, tasks, MapResult
    calls, handed,  \* parallel, per position: calls of f, times handed to a worker
    worked,         \* parallel: the workers that ran a chunk
    sequential_results, multiprocessing_results,
    raised,         \* the exception that left the entered function
    start_time, sequential_time, multiprocessing_time,
    speedup, printed,
    start, end, prime_count  \* a direct call count_primes_in_range(start, end)

vars == <<entry, base, unitSize, count, processes, ranges, pc, k, results,
          applied, pool, taskq, job, calls, handed, worked, sequential_results,
          multiprocessing_results, raised, start_time, sequential_time,
          multiprocessing_time, speedup, printed, start, end, prime_count>>

inputVars == <<entry, base, unitSize, count, processes, start, end>>
seqVars == <<k, results, applied, sequential_results>>
parVars == <<pool, taskq, job, calls, handed, worked, multiprocessing_results>>
timeVars == <<start_time, sequential_time, multiprocessing_time, speedup, printed>>

Entries == {"main", "run_sequential", "run_multiprocessing", "count_primes_in_range"}

\* the lists a caller may pass: up to n items, the i-th either the
\* well-formed range [2(i-1), 2i) or a malformed tuple
GoodItem(i) == <<2 * (i - 1), 2 * i>>
BadItem == <<4>>
ItemLists(n) ==
    {[i \in 1..m |-> IF i \in B THEN BadItem ELSE GoodItem(i)] :
        <<m, B>> \in {x \in (0..n) \X (SUBSET (1..n)) : x[2] \subseteq 1..x[1]}}

Clock == 0..MaxClock

Init ==
    /\ entry \in Entries
    /\ IF entry = "main"
       THEN /\ base \in 0..MaxBase
            /\ unitSize \in (0 - MaxUnit)..MaxUnit
            /\ count \in 0..MaxCount
       ELSE base = 0 /\ unitSize = 1 /\ count = 0
    /\ IF entry \in {"run_sequential", "run_multiprocessing"}
       THEN ranges \in ItemLists(MaxItems)
       ELSE ranges = <<>>
    /\ IF entry = "count_primes_in_range"
       THEN start \in (0 - MaxN)..MaxN /\ end \in (0 - MaxN)..MaxN
       ELSE start = 0 /\ end = 0
    /\ pc = CASE entry = "main" -> "main_build"
              [] entry = "run_sequential" -> "seq_loop"
              [] entry = "run_multiprocessing" -> "par_pool"
              [] OTHER -> "count_call"
    /\ processes \in IF entry \in {"main", "run_multiprocessing"} THEN 1..MaxProcs ELSE {1}
    /\ prime_count = Unbound
    /\ k = 0 /\ results = <<>> /\ applied = <<>>
    /\ pool = <<>> /\ taskq = <<>> /\ job = NewJob(0, 0)
    /\ calls = <<>> /\ handed = <<>> /\ worked = {}
    /\ sequential_results = Unbound /\ multiprocessing_results = Unbound
    /\ raised = Unbound
    /\ start_time = Unbound /\ sequential_time = Unbound
    /\ multiprocessing_time = Unbound /\ speedup = Unbound
    /\ printed = "nothing"

\* ------------------------------------------------ count_primes_in_range

\* a caller's count_primes_in_range(start, end) returns the count
CountCall ==
    /\ pc = "count_call"
    /\ prime_count' = Bound(count_primes_in_range(start, end))
    /\ pc' = "done"
    /\ UNCHANGED <<inputVars, ranges, seqVars, parVars, raised, timeVars>>

\* ----------------------------------------------------------------- main

\* ranges = [(1000000 + i * 10000, 1000000 + (i + 1) * 10000) for i in range(20)]
BuildRanges ==
    /\ pc = "main_build"
    /\ ranges' = partition(base, unitSize, count)
    /\ pc' = "main_seq"
    /\ UNCHANGED <<inputVars, prime_count, seqVars, parVars, raised, timeVars>>

\* start_time = time.time(); run_sequential(ranges) is entered
MainStartSequential ==
    /\ pc = "main_seq"
    /\ \E t \in Clock : start_time' = Bound(t)
    /\ k' = 0 /\ results' = <<>>
    /\ pc' = "seq_loop"
    /\ UNCHANGED <<inputVars, prime_count, ranges, applied, sequential_results, parVars, raised,
                   sequential_time, multiprocessing_time, speedup, printed>>

\* sequential_time = time.time() - start_time; the prints;
\* start_time = time.time(); run_multiprocessing(ranges) is entered
MainBetween ==
    /\ pc = "main_between"
    /\ \E t \in Clock : sequential_time' = Bound(t - ValueOf(start_time))
    /\ \E t \in Clock : start_time' = Bound(t)
    /\ pc' = "par_pool"
    /\ UNCHANGED <<inputVars, prime_count, ranges, seqVars, parVars, raised,
                   multiprocessing_time, speedup, printed>>

\* multiprocessing_time = time.time() - start_time; the prints; the speedup
MainReport ==
    /\ pc = "main_report"
    /\ \E t \in Clock :
         LET mt == t - ValueOf(start_time)
         IN  /\ multiprocessing_time' = Bound(mt)
             /\ IF SpeedupGuard(mt)
                THEN IF mt = 0
                     THEN /\ raised' = Bound([exc |-> "ZeroDivisionError", in |-> "main"])
                          /\ pc' = "raised"
                          /\ UNCHANGED <<speedup, printed>>
                     ELSE /\ speedup' = Bound(<<ValueOf(sequential_time), mt>>)
                          /\ printed' = "speedup"
                          /\ pc' = "done"
                          /\ UNCHANGED raised
                ELSE /\ printed' = "too_short"
                     /\ pc' = "done"
                     /\ UNCHANGED <<speedup, raised>>
    /\ UNCHANGED <<inputVars, prime_count, ranges, seqVars, parVars, start_time, sequential_time>>

\* ------------------------------------------------------- run_sequential

\* for start, end in ranges: results.append(count_primes_in_range(start, end))
SeqStep_SkipFailure ==
    /\ pc = "seq_loop"
    /\ k < Len(ranges)
    /\ k' = k + 1
    /\ applied' = Append(applied, k + 1)
    /\ results' = IF Raises(ranges[k + 1]) THEN results
                  ELSE Append(results, F(ranges[k + 1]))
    /\ UNCHANGED <<raised, pc>>
    /\ UNCHANGED <<inputVars, prime_count, ranges, sequential_results, parVars, timeVars>>

SeqStep ==
    /\ pc = "seq_loop"
    /\ k < Len(ranges)
    /\ k' = k + 1
    /\ applied' = Append(applied, k + 1)
    /\ IF Raises(ranges[k + 1])
       THEN /\ raised' = Bound([exc |-> "ValueError", in |-> "run_sequential"])
            /\ pc' = "raised"
            /\ UNCHANGED results
       ELSE /\ results' = Append(results, F(ranges[k + 1]))
            /\ UNCHANGED <<raised, pc>>
    /\ UNCHANGED <<inputVars, prime_count, ranges, sequential_results, parVars, timeVars>>

\* return results
SeqReturn ==
    /\ pc = "seq_loop"
    /\ k = Len(ranges)
    /\ sequential_results' = Bound(results)
    /\ pc' = IF entry = "main" THEN "main_between" ELSE "done"
    /\ UNCHANGED <<inputVars, prime_count, ranges, k, results, applied, parVars, raised, timeVars>>

\* -------------------------------------------------- run_multiprocessing

\* processes = mp.cpu_count(); with mp.Pool(processes=processes) as pool:
ParCreatePool ==
    /\ pc = "par_pool"
    /\ pool' = [w \in 1..processes |-> [state |-> "idle", task |-> 0]]
    /\ pc' = "par_map"
    /\ UNCHANGED <<inputVars, prime_count, ranges, seqVars, taskq, job, calls, handed,
                   worked, multiprocessing_results, raised, timeVars>>

\* pool.starmap(count_primes_in_range, ranges): the chunks are queued
ParStarmap ==
    /\ pc = "par_map"
    /\ LET n == Len(ranges)
           cs == ChunkSize(n, Len(pool))
       IN  /\ job' = NewJob(n, cs)
           /\ taskq' = [c \in 1..NumberLeft(n, cs) |-> c]
           /\ calls' = [p \in 1..n |-> 0]
           /\ handed' = [p \in 1..n |-> 0]
    /\ pc' = "par_wait"
    /\ UNCHANGED <<inputVars, prime_count, ranges, seqVars, pool, worked,
                   multiprocessing_results, raised, timeVars>>

\* a worker process takes the next task from the pool's task queue
WorkerGet_NoPop(w) ==
    /\ pool[w].state = "idle"
    /\ taskq # <<>>
    /\ pool' = [pool EXCEPT ![w] = [state |-> "busy", task |-> Head(taskq)]]
    /\ taskq' = taskq
    /\ handed' = [p \in DOMAIN handed |->
                    IF p \in ChunkPositions(Head(taskq), ChunkSize(Len(ranges), Len(pool)),
                                            Len(ranges))
                    THEN handed[p] + 1 ELSE handed[p]]
    /\ UNCHANGED <<inputVars, prime_count, ranges, pc, seqVars, job, calls, worked,
                   multiprocessing_results, raised, timeVars>>

WorkerGet(w) ==
    /\ pool[w].state = "idle"
    /\ taskq # <<>>
    /\ pool' = [pool EXCEPT ![w] = [state |-> "busy", task |-> Head(taskq)]]
    /\ taskq' = Tail(taskq)
    /\ handed' = [p \in DOMAIN handed |->
                    IF p \in ChunkPositions(Head(taskq), ChunkSize(Len(ranges), Len(pool)),
                                            Len(ranges))
                    THEN handed[p] + 1 ELSE handed[p]]
    /\ UNCHANGED <<inputVars, prime_count, ranges, pc, seqVars, job, calls, worked,
                   multiprocessing_results, raised, timeVars>>

\* the worker runs its chunk and the result is delivered to the MapResult
WorkerRun(w) ==
    /\ pool[w].state = "busy"
    /\ LET cs == ChunkSize(Len(ranges), Len(pool))
           ps == ChunkPositions(pool[w].task, cs, Len(ranges))
           res == RunChunk(ranges, ps)
       IN  /\ job' = JobSet(job, res)
           /\ calls' = [p \in DOMAIN calls |->
                          IF p \in res.done THEN calls[p] + 1 ELSE calls[p]]
    /\ worked' = worked \cup {w}
    /\ pool' = [pool EXCEPT ![w] = [state |-> "idle", task |-> 0]]
    /\ UNCHANGED <<inputVars, prime_count, ranges, pc, seqVars, taskq, handed,
                   multiprocessing_results, raised, timeVars>>

\* starmap returns or raises, the with block terminates the pool,
\* and run_multiprocessing returns results
ParFinish_NoTerminate ==
    /\ pc = "par_wait"
    /\ job.ready
    /\ UNCHANGED <<pool, taskq>>
    /\ IF job.success
       THEN /\ multiprocessing_results' = Bound(job.value)
            /\ pc' = IF entry = "main" THEN "main_report" ELSE "done"
            /\ UNCHANGED raised
       ELSE /\ raised' = Bound([exc |-> job.exc, in |-> "run_multiprocessing"])
            /\ pc' = "raised"
            /\ UNCHANGED multiprocessing_results
    /\ UNCHANGED <<inputVars, prime_count, ranges, seqVars, job, calls, handed, worked,
                   timeVars>>

ParFinish ==
    /\ pc = "par_wait"
    /\ job.ready
    /\ pool' = [w \in DOMAIN pool |-> [state |-> "terminated", task |-> 0]]
    /\ taskq' = <<>>
    /\ IF job.success
       THEN /\ multiprocessing_results' = Bound(job.value)
            /\ pc' = IF entry = "main" THEN "main_report" ELSE "done"
            /\ UNCHANGED raised
       ELSE /\ raised' = Bound([exc |-> job.exc, in |-> "run_multiprocessing"])
            /\ pc' = "raised"
            /\ UNCHANGED multiprocessing_results
    /\ UNCHANGED <<inputVars, prime_count, ranges, seqVars, job, calls, handed, worked,
                   timeVars>>

Next ==
    \/ CountCall
    \/ BuildRanges
    \/ MainStartSequential
    \/ MainBetween
    \/ MainReport
    \/ SeqStep
    \/ SeqReturn
    \/ ParCreatePool
    \/ ParStarmap
    \/ \E w \in DOMAIN pool : WorkerGet(w)
    \/ \E w \in DOMAIN pool : WorkerRun(w)
    \/ ParFinish

Spec == Init /\ [][Next]_vars

FairSpec == Spec /\ WF_vars(Next)

\* --------------------------------------------------------------- claims

SeqCalled == entry \in {"main", "run_sequential"} /\ pc # "main_build" /\ pc # "main_seq"
ParCalled == pool # <<>>
ParLeft == ParCalled /\ pc \in {"main_report", "done", "raised"}
SomeRaises == \E p \in 1..Len(ranges) : Raises(ranges[p])
\* the positions a worker is processing now
Holding(w) ==
    IF pool[w].state = "busy"
    THEN ChunkPositions(pool[w].task, ChunkSize(Len(ranges), Len(pool)), Len(ranges))
    ELSE {}

\* n has no divisor d with 2 <= d <= floor(sqrt(n))
NoSmallDivisor(n) == ~ \E d \in 2..n : d * d <= n /\ n % d = 0

InOrder(r) == DOMAIN r = 1..Len(ranges) /\ \A i \in 1..Len(ranges) : r[i] = F(ranges[i])

\* C1: the list run_multiprocessing returns has the length of the input and
\* its i-th element is f(items[i]), for every worker count and every
\* completion order; so has the list run_sequential returns, and where main
\* ran both on the same items the two lists are equal.
C1_ParallelEqualsSequential ==
    /\ multiprocessing_results # Unbound => InOrder(ValueOf(multiprocessing_results))
    /\ sequential_results # Unbound => InOrder(ValueOf(sequential_results))
    /\ (multiprocessing_results # Unbound /\ sequential_results # Unbound)
          => ValueOf(multiprocessing_results) = ValueOf(sequential_results)

C1_Witness ==
    /\ entry = "main" /\ pc = "main_report"
    /\ Len(pool) >= 2 /\ worked = DOMAIN pool
    /\ \E i, j \in 1..Len(ranges) :
          ValueOf(multiprocessing_results)[i] # ValueOf(multiprocessing_results)[j]

\* C2: in parallel mode no position is ever handed to a worker twice or
\* processed twice, and two workers never hold the same position; when
\* run_multiprocessing returns, every position was handed to exactly one
\* worker and processed exactly once, none omitted.
C2_ExactlyOnce ==
    /\ \A p \in DOMAIN calls : calls[p] <= 1 /\ handed[p] <= 1
    /\ \A v, w \in DOMAIN pool : v # w => Holding(v) \cap Holding(w) = {}
    /\ multiprocessing_results # Unbound =>
          /\ DOMAIN calls = 1..Len(ranges)
          /\ \A p \in 1..Len(ranges) : calls[p] = 1 /\ handed[p] = 1

C2_Witness ==
    /\ multiprocessing_results # Unbound
    /\ Len(ranges) >= 5
    /\ ChunkSize(Len(ranges), Len(pool)) >= 2

\* C3: when f fails on some item, run_multiprocessing never returns a list:
\* once the call has ended it has raised the worker's exception to its
\* caller, whatever else completed and whichever position failed.
C3_FailureNoResult ==
    (ParCalled /\ SomeRaises) =>
        /\ multiprocessing_results = Unbound
        /\ ParLeft => /\ pc = "raised"
                      /\ raised = Bound([exc |-> "TypeError", in |-> "run_multiprocessing"])

C3_Witness ==
    /\ pc = "raised" /\ ParCalled
    /\ Len(ranges) >= 3
    /\ Raises(ranges[2]) /\ calls[1] = 1 /\ calls[3] = 1

\* C4: for unitSize > 0 the range list has exactly count ranges, the i-th
\* being [base + i*unitSize, base + (i+1)*unitSize): each of width unitSize,
\* consecutive ones contiguous, all pairwise non-overlapping; and for
\* (1000000, 10000, 20) it has 20 ranges from [1000000, 1010000) to
\* [1190000, 1200000).
C4_Partition ==
    /\ (entry = "main" /\ pc # "main_build" /\ unitSize > 0) =>
          /\ Len(ranges) = count
          /\ \A i \in 0..(count - 1) :
                ranges[i + 1] = <<base + i * unitSize, base + (i + 1) * unitSize>>
          /\ \A i \in 1..count : ranges[i][2] - ranges[i][1] = unitSize
          /\ \A i \in 1..(count - 1) : ranges[i][2] = ranges[i + 1][1]
          /\ \A i, j \in 1..count :
                i < j => {n \in ranges[i][1]..(ranges[i][2] - 1) :
                             ranges[j][1] <= n /\ n < ranges[j][2]} = {}
    /\ LET r == partition(RangeBase, RangeSize, RangeCount)
       IN  /\ Len(r) = 20
           /\ r[1] = <<1000000, 1010000>>
           /\ r[20] = <<1190000, 1200000>>

C4_Witness ==
    /\ entry = "main" /\ pc = "main_seq"
    /\ unitSize = 2 /\ count = 3 /\ base = 1
    /\ ranges = <<<<1, 3>>, <<3, 5>>, <<5, 7>>>>

C6_CountPrimes ==
    /\ prime_count # Unbound =>
          /\ ValueOf(prime_count) =
                Cardinality({n \in start..(end - 1) : n >= 2 /\ NoSmallDivisor(n)})
          /\ start >= end => ValueOf(prime_count) = 0
    /\ \A n \in (0 - MaxN)..MaxN : is_prime(n) <=> (n >= 2 /\ NoSmallDivisor(n))
    /\ count_primes_in_range(10, 20) = 4

C6_Witness ==
    /\ prime_count = Bound(5) /\ start = 0 /\ end = 12

\* C7: main prints the speedup sequential_time / multiprocessing_time
\* exactly when multiprocessing_time > 0 and the too-short message
\* otherwise; the division is never done with multiprocessing_time = 0.
C7_SpeedupGuarded ==
    /\ (entry = "main" /\ pc = "done") =>
          LET mt == ValueOf(multiprocessing_time)
          IN  IF mt > 0
              THEN /\ printed = "speedup"
                   /\ speedup = Bound(<<ValueOf(sequential_time), mt>>)
              ELSE /\ printed = "too_short"
                   /\ speedup = Unbound
    /\ raised # Bound([exc |-> "ZeroDivisionError", in |-> "main"])
    /\ speedup # Unbound => ValueOf(speedup)[2] > 0
    /\ printed # "nothing" => pc = "done"

C7_Witness ==
    /\ entry = "main" /\ pc = "done"
    /\ multiprocessing_time = Bound(0) /\ printed = "too_short"

\* C8: run_sequential applies f in input order, once per item; when f fails
\* at position k, f was applied to exactly the positions up to k, to none
\* after it, and no list is returned.
C8_SequentialFailFast ==
    /\ applied = [i \in 1..k |-> i]
    /\ \A i \in 1..(k - 1) : ~Raises(ranges[i])
    /\ Len(results) = Cardinality({i \in 1..k : ~Raises(ranges[i])})
    /\ (SeqCalled /\ raised # Unbound) =>
          /\ k >= 1 /\ Raises(ranges[k])
          /\ sequential_results = Unbound
          /\ raised = Bound([exc |-> "ValueError", in |-> "run_sequential"])
    /\ (SeqCalled /\ SomeRaises) => sequential_results = Unbound
    /\ (SeqCalled /\ k >= 1 /\ Raises(ranges[k])) => pc = "raised"
    /\ sequential_results # Unbound => k = Len(ranges)

C8_Witness ==
    /\ entry = "run_sequential" /\ pc = "raised"
    /\ Len(ranges) >= 3 /\ k = 2 /\ applied = <<1, 2>>

\* C9: when run_multiprocessing has returned or raised, every chunk has
\* been delivered, no worker is busy, the task queue is empty and every
\* worker of the pool is terminated.
C9_PoolScoped ==
    ParLeft =>
        /\ \A w \in DOMAIN pool : pool[w].state = "terminated"
        /\ taskq = <<>>
        /\ job.number_left = 0

C9_Witness ==
    /\ ParLeft /\ pc = "raised" /\ Len(pool) = 2
    /\ worked = DOMAIN pool

\* C10: under fair scheduling every call of run_multiprocessing eventually
\* returns or raises, also for an empty input and for fewer items than
\* workers.
C10_EventuallyReturns ==
    (pc = "par_pool") ~> (pc \in {"main_report", "done", "raised"})

C10_Witness ==
    /\ entry = "run_multiprocessing" /\ pc = "done"
    /\ ranges = <<>> /\ Len(pool) = 2
    /\ multiprocessing_results = Bound(<<>>)

====
